---- MODULE Spec2Model ----
(***************************************************************************)
(* Model of the WhatsApp <-> amoCRM gateway's relay pipeline: the Redis    *)
(* backed queue (RedisQueue), the worker loops (QueueProcessor), the       *)
(* outgoing throttle (RateLimiter), the queue handlers registered by the   *)
(* application entry point, the session manager (WhatsAppManager,          *)
(* WhatsAppClient) and the CRM client (AmoCRMAPI.sendMessage).             *)
(*                                                                         *)
(* Variables whose comment says "history" record what happened; no action  *)
(* reads them in a guard or uses them to compute a program variable.       *)
(***************************************************************************)
EXTENDS Integers, Sequences, FiniteSets, TLC

VARIABLES
    chan,            \* Redis lists, one per key; index 1 is the head (left end)
    isConnected,     \* RedisQueue.isConnected
    processing,      \* QueueProcessor.processing
    loop,            \* the processQueue invocations: where each one is
    limits,          \* messageRateLimiter.limits (accountId -> entry)
    now,             \* Date.now()
    shutdown,        \* position of the SIGINT/SIGTERM handler
    created,         \* history: per type, number of messages created so far
    origin,          \* history: per uid, the QueueMessage as it was created
    arrival,         \* history: per Redis key, the elements in order of their enqueue
    everDead,        \* history: uids that were ever pushed to a dead-letter key
    fails,           \* history: per uid, how often its handler invocation threw
    delivered,       \* history: per uid, how often its handler did its work and returned
    denied,          \* history: per uid, how often the rate limiter denied it
    lost,            \* history: uids whose re-enqueue was refused by a disconnected broker
    popCount,        \* history: per enqueued instance, how many dequeue calls returned it
    firstSent,       \* history: uids in the order of their first hand-over to sock.sendMessage
    granted,         \* history: per key, checkLimit calls that returned true in the current window
    lastCheck,       \* history: the last checkLimit call (arguments, entry before/after, result)
    lastRetry,       \* history: the last retry() call (argument and the enqueues it issued)
    inFlightAtStop,  \* history: workers that were inside a handler when stop() ran
    clients,         \* WhatsAppManager.clients (accountId -> client object, 0 when absent)
    accountStatuses, \* WhatsAppManager.accountStatuses (accountId -> AccountStatus)
    wa,              \* the WhatsAppClient objects ever constructed, with their socket
    crm,             \* one AmoCRMAPI.sendMessage call: its inputs, position and result
    conversations,   \* the rows of table amocrm_conversations
    learned,         \* history: per (account, phone), the id the last successful send returned
    http,            \* history: the last webhook request, its response and what became of it
    ids,             \* history: QueueMessage.id of every message the entry point enqueued
    upsert,          \* history: the last message of a 'messages.upsert' event and how far it got
    outcomes         \* history: per uid, the ways a run of its handler ended other than well

vars == <<chan, isConnected, processing, loop, limits, now, shutdown, created,
          origin, arrival, everDead, fails, delivered, denied, lost, popCount, firstSent,
          granted, lastCheck, lastRetry, inFlightAtStop, clients, accountStatuses, wa, crm,
          conversations, learned, http, ids, upsert, outcomes>>

\* the queue, its workers and the limiter; the session manager; the CRM client
queueVars == <<chan, isConnected, processing, loop, limits, now, shutdown, created,
               origin, arrival, everDead, fails, delivered, denied, lost, popCount, firstSent,
               granted, lastCheck, lastRetry, inFlightAtStop>>
sessionVars == <<clients, accountStatuses, wa>>
crmVars == <<crm, conversations, learned>>
edgeVars == <<http, ids, upsert, outcomes>>

(***************************************************************************)
(* Program constants                                                       *)
(***************************************************************************)
maxRetriesDefault == 3      \* retry(message, maxRetries = 3)
maxRequests == 10           \* messageRateLimiter = new RateLimiter(10, 60000)
windowMs == 60000
mediaMaxRequests == 5       \* mediaRateLimiter = new RateLimiter(5, 60000)
maxReconnectAttempts == 5   \* WhatsAppClient.maxReconnectAttempts
backoffBaseMs == 1000       \* Math.min(1000 * Math.pow(2, attempts), 30000)
backoffCapMs == 30000
Undefined == -1             \* the value of an absent retryCount (retryCount?: number)

(***************************************************************************)
(* Bounds of the model                                                     *)
(***************************************************************************)
MaxMessages == 2            \* messages created by the two boundary functions together
TickMs == 20000             \* the clock is observed in steps of TickMs
MaxNow == 80000             \* the clock stops here
MaxRestarts == 1            \* start() calls after the one made at bootstrap
MaxClients == 2             \* WhatsAppClient objects constructed (addAccount calls that pass)
MaxOpens == 1               \* 'open' events one client object sees
MaxSockets == 2             \* sockets one client object makes while accounts come and go
MaxPasses == 3              \* sendScopedMessage invocations of one sendMessage call
MaxCalls == 2               \* sendMessage calls made one after the other

Types == {"incoming", "outgoing"}
Accounts == {"acc1"}
Counterparts == {"79990000000"}
MaxUid == MaxMessages + maxRequests + 1
Uids == 1..MaxUid
Workers == 1..(2 * (MaxRestarts + 1))

QueueName(type) == IF type = "incoming" THEN "incoming:queue" ELSE "outgoing:queue"
DeadLetterName(type) ==
    IF type = "incoming" THEN "incoming:dead-letter" ELSE "outgoing:dead-letter"
Keys == {QueueName(t) : t \in Types} \cup {DeadLetterName(t) : t \in Types}

Null == <<>>
NoMsg == [uid |-> 0]

\* the session manager's maps and the client objects
ClientIds == 1..MaxClients
NoClient == 0
NoStatus == [connected |-> FALSE, lastError |-> "absent"]
\* (lastDisconnect.error as Boom).output.statusCode: DisconnectReason.loggedOut
\* and one other
loggedOut == "401"
Reasons == {loggedOut, "428"}
\* a client object: sock is this.sock ("null" or "set"), link is the state of
\* the socket made last, gen counts the sockets made (history), timer says
\* whether a timer set by handleDisconnect is still to fire, connectPc and
\* disconnectPc are the positions of connect() and disconnect(); the rest is
\* history (lastSend: how the last manager.sendMessage for the client ended
\* and what the account's status said then)
Unborn ==
    [born |-> FALSE, accountId |-> "", sock |-> "null", link |-> "none", gen |-> 0,
     reconnectAttempts |-> 0, reconnectTimeout |-> "null", timer |-> FALSE, delay |-> 0,
     connectPc |-> "idle", via |-> "none", disconnectPc |-> "idle", endGen |-> 0,
     removed |-> FALSE, opens |-> 0, sinceOpen |-> 0,
     lastClose |-> [reason |-> "none", before |-> 0, after |-> 0, scheduled |-> FALSE],
     lastSend |-> [result |-> "none", connected |-> FALSE]]

\* text is a sequence of one-character strings
Digits == {"0", "1", "2", "3", "4", "5", "6", "7", "8", "9"}

\* s.split(ch)[0]
RECURSIVE splitFirst(_, _)
splitFirst(s, ch) ==
    IF s = <<>> \/ Head(s) = ch THEN <<>> ELSE <<Head(s)>> \o splitFirst(Tail(s), ch)

\* s.replace(/[^0-9]/g, '') and s.replace(/\D/g, '')
digitsOnly(s) == SelectSeq(s, LAMBDA ch : ch \in Digits)

\* chatId.split('-')[0].split('@')[0]
normalizeChatId(chatId) == splitFirst(splitFirst(chatId, "-"), "@")

\* null, undefined and the empty string: what `||` and `if (x)` take as absent
None == ""
ThreadIds == {"t1", "t2"}

\* table amocrm_conversations, PRIMARY KEY (account_id, phone_number)
Row(a, p, t) == [account_id |-> a, phone_number |-> p, conversation_id |-> t]
RowsOf(rows, a, p) == {r \in rows : r.account_id = a /\ r.phone_number = p}

\* an upsert whose update matches the phone number alone
saveConversationIdByPhone(rows, a, p, t) ==
    {IF r.phone_number = p THEN [r EXCEPT !.conversation_id = t] ELSE r : r \in rows}
        \cup {Row(a, p, t)}

\* INSERT ... ON CONFLICT(account_id, phone_number) DO UPDATE SET
\* conversation_id = excluded.conversation_id
saveConversationId(rows, a, p, t) ==
    IF RowsOf(rows, a, p) = {} THEN rows \cup {Row(a, p, t)}
    ELSE {IF r \in RowsOf(rows, a, p) THEN [r EXCEPT !.conversation_id = t] ELSE r : r \in rows}

\* SELECT conversation_id ... WHERE account_id = ? AND phone_number = ? LIMIT 1;
\* return row?.conversation_id || null
getConversationId(rows, a, p) ==
    IF RowsOf(rows, a, p) = {} THEN None
    ELSE (CHOOSE r \in RowsOf(rows, a, p) : TRUE).conversation_id

\* the accounts and chat ids sendMessage is called with, and the phone
\* numbers (keys of the table) they give
CrmAccounts == {"acc1", "acc2"}
ChatIds == {<<"7", "9">>, <<"+", "7", "9", "-", "1", "@", "s">>, <<"8">>, <<"g">>}
Phones == {digitsOnly(normalizeChatId(c)) : c \in ChatIds} \ {<<>>}

\* no AmoCRMAPI.sendMessage call made: pc is the position of the call, i the
\* index of the payload variant (or fallback method) tried next, pass the
\* number of sendScopedMessage invocations, refreshes the number of
\* oauth.refreshTokens() calls, tried the requests made (history), result
\* "ok" or the code of the error thrown; accountId and chatId are the inputs,
\* normalizedChatId, phoneNumber and conversationIdToUse the locals of
\* sendScopedMessage, returned the id found in the 2xx response (history),
\* call the number of sendMessage calls made so far (history)
NoCall ==
    [pc |-> "idle", scope |-> "none", i |-> 0, pass |-> 0, refreshes |-> 0,
     tried |-> <<>>, result |-> "none", accountId |-> "", chatId |-> <<>>,
     normalizedChatId |-> <<>>, phoneNumber |-> <<>>, conversationIdToUse |-> None,
     returned |-> None, call |-> 0]

\* no webhook request handled: copy is the entry point that served it,
\* status the HTTP status of the response, outcome what handleOutgoingMessage
\* did with the payload, to the address it built
NoHttp ==
    [copy |-> "none", account_id |-> "", chat_id |-> <<>>, status |-> 0,
     outcome |-> "none", to |-> <<>>]

\* a message of a 'messages.upsert' event: msg.key.fromMe, the kind of
\* msg.key.remoteJid, and the key of msg.message (NoContent when it is null)
NoContent == "null"
NoFrame == [fromMe |-> FALSE, remoteJid |-> "none", content |-> NoContent]
NoUpsert ==
    [copy |-> "none", frame |-> NoFrame, onMessage |-> FALSE, outcome |-> "none",
     threw |-> FALSE]

\* (message.retryCount || 0)
OrZero(rc) == IF rc = Undefined THEN 0 ELSE rc

\* JSON.stringify(message) and JSON.parse(element) on a QueueMessage
stringify(message) ==
    <<message.uid, message.type, message.accountId, message.to, message.retryCount,
      message.media>>
parse(element) ==
    [uid |-> element[1], type |-> element[2], accountId |-> element[3],
     to |-> element[4], retryCount |-> element[5], media |-> element[6]]

(***************************************************************************)
(* RedisQueue                                                              *)
(***************************************************************************)
\* client.lPush(queueName, serialized): the new element becomes the head
lPush(list, element) == <<element>> \o list

\* brPop as it would be with lIndex(queueName, -1): the tail element is read, not removed
brPopPeek(list) ==
    IF list = <<>>
    THEN [element |-> Null, rest |-> list]
    ELSE [element |-> list[Len(list)], rest |-> list]

\* brPop as it would be with blPop: the head element is taken
brPopHead(list) ==
    IF list = <<>>
    THEN [element |-> Null, rest |-> list]
    ELSE [element |-> Head(list), rest |-> Tail(list)]

\* client.brPop(queueName, timeout): the tail element, or null on an empty list
brPop(list) ==
    IF list = <<>>
    THEN [element |-> Null, rest |-> list]
    ELSE [element |-> list[Len(list)], rest |-> SubSeq(list, 1, Len(list) - 1)]

\* RedisQueue.enqueue: throws QueueError when not connected, else one lPush
enqueue(c, connected, queueName, message) ==
    IF ~connected
    THEN [threw |-> TRUE, chan |-> c]
    ELSE [threw |-> FALSE,
          chan |-> [c EXCEPT ![queueName] = lPush(@, stringify(message))]]

\* RedisQueue.dequeue: throws QueueError when not connected, else one brPop;
\* message is NoMsg (null) when brPop timed out
dequeue(c, connected, queueName) ==
    IF ~connected
    THEN [threw |-> TRUE, message |-> NoMsg, chan |-> c]
    ELSE LET result == brPop(c[queueName])
         IN  [threw |-> FALSE,
              message |-> IF result.element = Null THEN NoMsg ELSE parse(result.element),
              chan |-> [c EXCEPT ![queueName] = result.rest]]

\* retry as it would be with `>` for `>=`
retryGt(message, maxRetries) ==
    IF OrZero(message.retryCount) > maxRetries
    THEN <<[queueName |-> DeadLetterName(message.type), message |-> message]>>
    ELSE <<[queueName |-> QueueName(message.type),
            message |-> [message EXCEPT !.retryCount = OrZero(@) + 1]]>>

\* retry as it would be without the `return` of the dead-letter branch
retryNoReturn(message, maxRetries) ==
    LET again == [queueName |-> QueueName(message.type),
                  message |-> [message EXCEPT !.retryCount = OrZero(@) + 1]]
    IN  IF OrZero(message.retryCount) >= maxRetries
        THEN <<[queueName |-> DeadLetterName(message.type), message |-> message], again>>
        ELSE <<again>>

\* RedisQueue.retry: the enqueue calls it issues, in order, each with the
\* message as it is when the call is made
retry(message, maxRetries) ==
    IF OrZero(message.retryCount) >= maxRetries
    THEN <<[queueName |-> DeadLetterName(message.type), message |-> message]>>
    ELSE <<[queueName |-> QueueName(message.type),
            message |-> [message EXCEPT !.retryCount = OrZero(@) + 1]]>>

\* the enqueue calls of one retry() run one after the other; the first that
\* throws ends retry()
RECURSIVE runCalls(_, _, _)
runCalls(c, connected, calls) ==
    IF calls = <<>>
    THEN [threw |-> FALSE, chan |-> c]
    ELSE LET r == enqueue(c, connected, calls[1].queueName, calls[1].message)
         IN  IF r.threw THEN r ELSE runCalls(r.chan, connected, Tail(calls))

\* one call of queue.retry(message): the calls it issued, whether it threw,
\* the lists afterwards, and the caller's message object afterwards (retry
\* increments retryCount in place before it enqueues)
runRetry(c, connected, message) ==
    LET calls == retry(message, maxRetriesDefault)
        r == runCalls(c, connected, calls)
    IN  [calls |-> calls, threw |-> r.threw, chan |-> r.chan,
         message |-> calls[Len(calls)].message, arg |-> message]

(***************************************************************************)
(* RateLimiter                                                             *)
(***************************************************************************)
NoEntry == [count |-> 0, resetAt |-> -1]

\* checkLimit as it would be with `>` for `>=`
checkLimitGt(lim, key, t) ==
    LET entry == lim[key]
    IN  IF entry = NoEntry \/ t > entry.resetAt
        THEN [ok |-> TRUE,
              limits |-> [lim EXCEPT ![key] = [count |-> 1, resetAt |-> t + windowMs]]]
        ELSE IF entry.count > maxRequests
        THEN [ok |-> FALSE, limits |-> lim]
        ELSE [ok |-> TRUE, limits |-> [lim EXCEPT ![key].count = @ + 1]]

\* RateLimiter.checkLimit(key) at time t on the map lim
checkLimit(lim, key, t) ==
    LET entry == lim[key]
    IN  IF entry = NoEntry \/ t > entry.resetAt
        THEN [ok |-> TRUE,
              limits |-> [lim EXCEPT ![key] = [count |-> 1, resetAt |-> t + windowMs]]]
        ELSE IF entry.count >= maxRequests
        THEN [ok |-> FALSE, limits |-> lim]
        ELSE [ok |-> TRUE, limits |-> [lim EXCEPT ![key].count = @ + 1]]

(***************************************************************************)
(* History bookkeeping                                                     *)
(***************************************************************************)
NoRetry == [arg |-> NoMsg, calls |-> <<>>, threw |-> FALSE]
NoCheck == [key |-> "", t |-> 0, before |-> NoEntry, after |-> NoEntry, ok |-> FALSE,
            grantedBefore |-> 0]

RECURSIVE noteCalls(_, _)
noteCalls(arr, calls) ==
    IF calls = <<>>
    THEN arr
    ELSE noteCalls([arr EXCEPT ![calls[1].queueName] =
                        Append(@, stringify(calls[1].message))], Tail(calls))

RECURSIVE RemoveFirst(_, _)
RemoveFirst(seq, e) ==
    IF seq = <<>> THEN seq
    ELSE IF Head(seq) = e THEN Tail(seq)
    ELSE <<Head(seq)>> \o RemoveFirst(Tail(seq), e)

DeadKeys == {DeadLetterName(t) : t \in Types}
DeadUids(calls) ==
    {calls[i].message.uid : i \in {j \in 1..Len(calls) : calls[j].queueName \in DeadKeys}}

Bump(f, x) == IF x \in DOMAIN f THEN [f EXCEPT ![x] = @ + 1] ELSE f @@ (x :> 1)

(***************************************************************************)
(* State after bootstrap: start() of the entry point has connected the     *)
(* queue and called queueProcessor.start(), which started one processQueue *)
(* per registered processor ('incoming', 'outgoing').                      *)
(***************************************************************************)
NoWorker == [queue |-> "none", pc |-> "none", msg |-> NoMsg, oldest |-> Null]
NewWorker(type) == [queue |-> type, pc |-> "brpop", msg |-> NoMsg, oldest |-> Null]

\* a limiter entry nobody has used, and one whose window, opened at time 0 by
\* earlier traffic of the account, is used up
Exhausted == [count |-> maxRequests, resetAt |-> windowMs]

Boot(keys, entries) ==
    /\ chan = [k \in Keys |-> <<>>]
    /\ isConnected = TRUE
    /\ processing = TRUE
    /\ loop = [w \in Workers |->
                 IF w = 1 THEN NewWorker("incoming")
                 ELSE IF w = 2 THEN NewWorker("outgoing") ELSE NoWorker]
    /\ limits \in [keys -> entries]
    /\ now = 0
    /\ shutdown = "running"
    /\ created = [t \in Types |-> 0]
    /\ origin = [u \in Uids |-> NoMsg]
    /\ arrival = [k \in Keys |-> <<>>]
    /\ everDead = {}
    /\ fails = [u \in Uids |-> 0]
    /\ delivered = [u \in Uids |-> 0]
    /\ denied = [u \in Uids |-> 0]
    /\ lost = {}
    /\ popCount = <<>>
    /\ firstSent = <<>>
    /\ granted = [a \in keys |-> limits[a].count]
    /\ lastCheck = NoCheck
    /\ lastRetry = NoRetry
    /\ inFlightAtStop = {}
    /\ clients = [a \in Accounts |-> NoClient]
    /\ accountStatuses = [a \in Accounts |-> NoStatus]
    /\ wa = [c \in ClientIds |-> Unborn]
    /\ crm = NoCall
    /\ conversations = {}
    /\ learned = [k \in CrmAccounts \X Phones |-> None]
    /\ http = NoHttp
    /\ ids = <<>>
    /\ upsert = NoUpsert
    /\ outcomes = [u \in Uids |-> {}]

Init == Boot(Accounts, {NoEntry, Exhausted})
InitFresh == Boot(Accounts, {NoEntry})

\* the process runs: it has neither exited through the signal handler nor
\* been ended by an unhandled promise rejection
Alive == shutdown \notin {"exited", "crashed"}
HandlerPcs == {"limit", "typing", "delay", "send", "in_delay", "in_send"}

\* while (this.processing)
LoopTop(proc) == IF proc THEN "brpop" ELSE "exit"

Idle(w, pc) == [loop EXCEPT ![w] = [@ EXCEPT !.pc = pc, !.msg = NoMsg, !.oldest = Null]]
At(w, pc) == [loop EXCEPT ![w].pc = pc, ![w].oldest = Null]

NoCalls == lastCheck' = NoCheck /\ lastRetry' = NoRetry

(***************************************************************************)
(* The boundary: handleOutgoingMessage / handleIncomingMessage build a     *)
(* QueueMessage without retryCount and enqueue it.  When enqueue throws    *)
(* nothing is queued.                                                      *)
(***************************************************************************)
\* media: data.mediaUrl && data.mediaType
NewMessage(type, accountId, to, media) ==
    [uid |-> created["incoming"] + created["outgoing"] + 1, type |-> type,
     accountId |-> accountId, to |-> to, retryCount |-> Undefined, media |-> media]

Produce(type, accountId, to, media, max) ==
    LET message == NewMessage(type, accountId, to, media)
        r == enqueue(chan, isConnected, QueueName(type), message)
    IN  /\ Alive
        /\ created["incoming"] + created["outgoing"] < max
        /\ ~r.threw
        /\ chan' = r.chan
        /\ arrival' = [arrival EXCEPT ![QueueName(type)] = Append(@, stringify(message))]
        /\ created' = [created EXCEPT ![type] = @ + 1]
        /\ origin' = [origin EXCEPT ![message.uid] = message]
        /\ NoCalls
        /\ UNCHANGED <<isConnected, processing, loop, limits, now, shutdown, everDead,
                       fails, delivered, denied, lost, popCount, firstSent, granted,
                       inFlightAtStop>>
        /\ UNCHANGED <<sessionVars, crmVars, edgeVars>>

handleOutgoingMessage(accountId, to) == Produce("outgoing", accountId, to, FALSE, MaxMessages)
handleIncomingMessage(accountId, to) == Produce("incoming", accountId, to, FALSE, MaxMessages)

(***************************************************************************)
(* QueueProcessor.processQueue                                             *)
(***************************************************************************)
\* await this.queue.dequeue(`${queueName}:queue`, 5) returns or throws;
\* on null the loop continues with the next iteration
BrPop(w) ==
    LET key == QueueName(loop[w].queue)
        r == dequeue(chan, isConnected, key)
        oldest == IF arrival[key] = <<>> THEN Null ELSE Head(arrival[key])
    IN  /\ Alive
        /\ loop[w].pc = "brpop"
        /\ chan' = r.chan
        /\ IF r.threw
           THEN /\ loop' = At(w, "sleep")
                /\ UNCHANGED <<arrival, popCount>>
           ELSE IF r.message = NoMsg
           THEN /\ loop' = At(w, LoopTop(processing))
                /\ UNCHANGED <<arrival, popCount>>
           ELSE /\ loop' = [loop EXCEPT ![w] =
                      [@ EXCEPT !.pc = IF loop[w].queue = "outgoing" THEN "limit" ELSE "in_delay",
                                !.msg = r.message, !.oldest = oldest]]
                /\ arrival' = [arrival EXCEPT ![key] = RemoveFirst(@, stringify(r.message))]
                /\ popCount' = Bump(popCount, stringify(r.message))
        /\ NoCalls
        /\ UNCHANGED <<isConnected, processing, limits, now, shutdown, created, origin, everDead,
                       fails, delivered, denied, lost, firstSent, granted, inFlightAtStop>>
        /\ UNCHANGED <<sessionVars, crmVars, edgeVars>>

\* the outer catch: setTimeout(resolve, 1000) has fired
SleepDone(w) ==
    /\ Alive
    /\ loop[w].pc = "sleep"
    /\ loop' = At(w, LoopTop(processing))
    /\ NoCalls
    /\ UNCHANGED <<chan, isConnected, processing, limits, now, shutdown, created, origin, arrival,
                   everDead, fails, delivered, denied, lost, popCount, firstSent, granted,
                   inFlightAtStop>>
    /\ UNCHANGED <<sessionVars, crmVars, edgeVars>>

\* the handler returned: emit('processed'), next iteration
Processed(w) ==
    /\ loop' = Idle(w, LoopTop(processing))
    /\ inFlightAtStop' = inFlightAtStop \ {w}

\* one queue.retry(message) made for worker w; next is where the worker goes
\* when retry() returns
RetryFor(w, message, next) ==
    LET rr == runRetry(chan, isConnected, message)
    IN  /\ chan' = rr.chan
        /\ arrival' = IF rr.threw THEN arrival ELSE noteCalls(arrival, rr.calls)
        /\ everDead' = IF rr.threw THEN everDead ELSE everDead \cup DeadUids(rr.calls)
        /\ lost' = IF rr.threw THEN lost \cup {message.uid} ELSE lost
        /\ lastRetry' = [arg |-> rr.arg, calls |-> rr.calls, threw |-> rr.threw]
        /\ loop' = Idle(w, IF rr.threw THEN "sleep" ELSE next)
        /\ inFlightAtStop' = inFlightAtStop \ {w}

\* the handler threw: catch (err) { emit('error'); await this.queue.retry(message) };
\* when retry throws too, the outer catch sleeps
ProcessorCatch(w, message) ==
    /\ fails' = [fails EXCEPT ![message.uid] = @ + 1]
    /\ RetryFor(w, message, LoopTop(processing))

\* the effect of one checkLimit(key) call with result r, and its record
Checked(key, r) ==
    /\ limits' = r.limits
    /\ lastCheck' = [key |-> key, t |-> now, before |-> limits[key],
                     after |-> r.limits[key], ok |-> r.ok, grantedBefore |-> granted[key]]
    /\ granted' = IF ~r.ok THEN granted
                  ELSE IF r.limits[key].resetAt # limits[key].resetAt
                  THEN [granted EXCEPT ![key] = 1]
                  ELSE [granted EXCEPT ![key] = @ + 1]

(***************************************************************************)
(* registerProcessor('outgoing', ...): rate-limit check, typing            *)
(* simulation, random delay, send.  Text messages (no mediaUrl).           *)
(***************************************************************************)
\* if (!(await messageRateLimiter.checkLimit(accountId))) { await queue.retry(message); return; }
OutgoingLimit(w) ==
    LET m == loop[w].msg
        key == m.accountId
        r == checkLimit(limits, key, now)
        inner == runRetry(chan, isConnected, m)
    IN  /\ Alive
        /\ loop[w].pc = "limit"
        /\ Checked(key, r)
        /\ IF r.ok
           THEN /\ loop' = At(w, "typing")
                /\ lastRetry' = NoRetry
                /\ UNCHANGED <<chan, arrival, everDead, lost, fails, denied, inFlightAtStop>>
           ELSE /\ denied' = [denied EXCEPT ![m.uid] = @ + 1]
                /\ IF inner.threw
                   THEN ProcessorCatch(w, inner.message)
                   ELSE RetryFor(w, m, LoopTop(processing)) /\ UNCHANGED fails
        /\ UNCHANGED <<isConnected, processing, now, shutdown, created, origin, delivered,
                       popCount, firstSent>>
        /\ UNCHANGED <<sessionVars, crmVars, edgeVars>>

HandlerStep(w, from, to) ==
    /\ Alive
    /\ loop[w].pc = from
    /\ loop' = At(w, to)
    /\ NoCalls
    /\ UNCHANGED <<chan, isConnected, processing, limits, now, shutdown, created, origin, arrival,
                   everDead, fails, delivered, denied, lost, popCount, firstSent, granted,
                   inFlightAtStop>>
    /\ UNCHANGED <<sessionVars, crmVars, edgeVars>>

\* await simulateTyping(...): it catches its own errors
OutgoingTyping(w) == HandlerStep(w, "typing", "delay")

SessionsUp == shutdown \in {"running", "stopped"}

\* randomDelay() is over; manager.sendMessage finds the client connected and
\* calls sock.sendMessage(to, {text})
OutgoingIssueSend(w) ==
    /\ Alive
    /\ loop[w].pc = "delay"
    /\ ~loop[w].msg.media
    /\ SessionsUp
    /\ loop' = At(w, "send")
    /\ firstSent' = IF \E i \in 1..Len(firstSent) : firstSent[i] = loop[w].msg.uid
                    THEN firstSent ELSE Append(firstSent, loop[w].msg.uid)
    /\ NoCalls
    /\ UNCHANGED <<chan, isConnected, processing, limits, now, shutdown, created, origin, arrival,
                   everDead, fails, delivered, denied, lost, popCount, granted,
                   inFlightAtStop>>
    /\ UNCHANGED <<sessionVars, crmVars, edgeVars>>

HandlerThrows(w, from) ==
    /\ Alive
    /\ loop[w].pc = from
    /\ ProcessorCatch(w, loop[w].msg)
    /\ lastCheck' = NoCheck
    /\ UNCHANGED <<isConnected, processing, limits, now, shutdown, created, origin, delivered,
                   denied, popCount, firstSent, granted>>
    /\ UNCHANGED <<sessionVars, crmVars, edgeVars>>

HandlerReturns(w, from) ==
    /\ Alive
    /\ loop[w].pc = from
    /\ delivered' = [delivered EXCEPT ![loop[w].msg.uid] = @ + 1]
    /\ Processed(w)
    /\ NoCalls
    /\ UNCHANGED <<chan, isConnected, processing, limits, now, shutdown, created, origin, arrival,
                   everDead, fails, denied, lost, popCount, firstSent, granted>>
    /\ UNCHANGED <<sessionVars, crmVars, edgeVars>>

\* randomDelay() is over, data.mediaUrl && data.mediaType: the file is
\* downloaded, the client has a socket, mediaUploader.sendToWhatsApp is called
OutgoingMediaSend(w) ==
    /\ Alive
    /\ loop[w].pc = "delay"
    /\ loop[w].msg.media
    /\ SessionsUp
    /\ loop' = At(w, "send")
    /\ firstSent' = IF \E i \in 1..Len(firstSent) : firstSent[i] = loop[w].msg.uid
                    THEN firstSent ELSE Append(firstSent, loop[w].msg.uid)
    /\ NoCalls
    /\ UNCHANGED <<chan, isConnected, processing, limits, now, shutdown, created, origin, arrival,
                   everDead, fails, delivered, denied, lost, popCount, granted,
                   inFlightAtStop>>
    /\ UNCHANGED <<sessionVars, crmVars, edgeVars>>

\* downloadFromUrl returned null, or the client has no socket: nothing is
\* sent and the handler returns
OutgoingMediaNoFile(w) ==
    loop[w].pc = "delay" /\ loop[w].msg.media /\ HandlerReturns(w, "delay")

\* randomDelay() is over; manager.sendMessage throws 'not found' / 'is not connected'
OutgoingNotConnected(w) == HandlerThrows(w, "delay")
\* sock.sendMessage resolved
OutgoingSendOk(w) == SessionsUp /\ HandlerReturns(w, "send")
\* sock.sendMessage rejected
OutgoingSendError(w) == HandlerThrows(w, "send")

(***************************************************************************)
(* registerProcessor('incoming', ...): random delay, then                  *)
(* amocrmAPI.sendMessage, whose result decides the handler's.              *)
(***************************************************************************)
IncomingDelay(w) == HandlerStep(w, "in_delay", "in_send")
IncomingSendOk(w) == HandlerReturns(w, "in_send")
IncomingSendFail(w) == HandlerThrows(w, "in_send")

(***************************************************************************)
(* Environment: the clock, the Redis client's 'error' event, the signal    *)
(* handler.                                                                *)
(***************************************************************************)
Tick ==
    /\ Alive
    /\ now + TickMs <= MaxNow
    /\ now' = now + TickMs
    /\ NoCalls
    /\ UNCHANGED <<chan, isConnected, processing, loop, limits, shutdown, created, origin, arrival,
                   everDead, fails, delivered, denied, lost, popCount, firstSent, granted,
                   inFlightAtStop>>
    /\ UNCHANGED <<sessionVars, crmVars, edgeVars>>

\* this.client.on('error', ...): this.isConnected = false
RedisError ==
    /\ Alive
    /\ isConnected
    /\ isConnected' = FALSE
    /\ NoCalls
    /\ UNCHANGED <<chan, processing, loop, limits, now, shutdown, created, origin, arrival,
                   everDead, fails, delivered, denied, lost, popCount, firstSent, granted,
                   inFlightAtStop>>
    /\ UNCHANGED <<sessionVars, crmVars, edgeVars>>

\* QueueProcessor.stop()
stop ==
    /\ processing' = FALSE
    /\ inFlightAtStop' = {w \in Workers : loop[w].pc \in HandlerPcs}

\* process.on('SIGTERM'): await queueProcessor.stop()
SignalStop ==
    /\ shutdown = "running"
    /\ stop
    /\ shutdown' = "stopped"
    /\ NoCalls
    /\ UNCHANGED <<chan, isConnected, loop, limits, now, created, origin, arrival, everDead, fails,
                   delivered, denied, lost, popCount, firstSent, granted>>
    /\ UNCHANGED <<sessionVars, crmVars, edgeVars>>

\* await manager.disconnectAll()
SignalDisconnectAll ==
    /\ shutdown = "stopped"
    /\ shutdown' = "sessionsClosed"
    /\ NoCalls
    /\ UNCHANGED <<chan, isConnected, processing, loop, limits, now, created, origin, arrival,
                   everDead, fails, delivered, denied, lost, popCount, firstSent, granted,
                   inFlightAtStop>>
    /\ UNCHANGED <<sessionVars, crmVars, edgeVars>>

\* await queue.disconnect()
SignalQueueDisconnect ==
    /\ shutdown = "sessionsClosed"
    /\ shutdown' = "brokerClosed"
    /\ isConnected' = FALSE
    /\ NoCalls
    /\ UNCHANGED <<chan, processing, loop, limits, now, created, origin, arrival, everDead, fails,
                   delivered, denied, lost, popCount, firstSent, granted, inFlightAtStop>>
    /\ UNCHANGED <<sessionVars, crmVars, edgeVars>>

\* process.exit(0)
SignalExit ==
    /\ shutdown = "brokerClosed"
    /\ shutdown' = "exited"
    /\ NoCalls
    /\ UNCHANGED <<chan, isConnected, processing, loop, limits, now, created, origin, arrival,
                   everDead, fails, delivered, denied, lost, popCount, firstSent, granted,
                   inFlightAtStop>>
    /\ UNCHANGED <<sessionVars, crmVars, edgeVars>>

Next ==
    \/ \E a \in Accounts, c \in Counterparts : handleOutgoingMessage(a, c)
    \/ \E a \in Accounts, c \in Counterparts : handleIncomingMessage(a, c)
    \/ \E w \in Workers : BrPop(w)
    \/ \E w \in Workers : SleepDone(w)
    \/ \E w \in Workers : OutgoingLimit(w)
    \/ \E w \in Workers : OutgoingTyping(w)
    \/ \E w \in Workers : OutgoingIssueSend(w)
    \/ \E w \in Workers : OutgoingNotConnected(w)
    \/ \E w \in Workers : OutgoingSendOk(w)
    \/ \E w \in Workers : OutgoingSendError(w)
    \/ \E w \in Workers : IncomingDelay(w)
    \/ \E w \in Workers : IncomingSendOk(w)
    \/ \E w \in Workers : IncomingSendFail(w)
    \/ RedisError

Spec == Init /\ [][Next]_vars

(***************************************************************************)
(* Scenario 3 of the relay: one account receives a burst of                *)
(* maxRequests + 1 outgoing texts; the session stays open and every send   *)
(* succeeds.                                                               *)
(***************************************************************************)
BurstSize == maxRequests + 1

handleOutgoingBurst(accountId, to) == Produce("outgoing", accountId, to, FALSE, BurstSize)

NextBurst ==
    \/ \E a \in Accounts, c \in Counterparts : handleOutgoingBurst(a, c)
    \/ \E w \in Workers : BrPop(w)
    \/ \E w \in Workers : OutgoingLimit(w)
    \/ \E w \in Workers : OutgoingTyping(w)
    \/ \E w \in Workers : OutgoingIssueSend(w)
    \/ \E w \in Workers : OutgoingSendOk(w)
    \/ Tick

SpecBurst == InitFresh /\ [][NextBurst]_vars

(***************************************************************************)
(* Properties of the queue and the worker loops                            *)
(***************************************************************************)
Copies(key, u) == Cardinality({i \in 1..Len(chan[key]) : parse(chan[key][i]).uid = u})
Held(u) == \E w \in Workers : loop[w].msg.uid = u
Made == {u \in Uids : origin[u] # NoMsg}
QueueOfUid(u) == QueueName(origin[u].type)
DeadOfUid(u) == DeadLetterName(origin[u].type)

\* C1: a message created without retryCount whose handler throws fewer than
\* maxRetries times and then does its work is handled successfully exactly
\* once, is afterwards in no Redis list and with no worker, and was never
\* pushed to its dead-letter list.
C1_RetriedThenDeliveredOnce ==
    \A u \in Made :
        (delivered[u] >= 1 /\ fails[u] < maxRetriesDefault) =>
            /\ delivered[u] = 1
            /\ \A k \in Keys : Copies(k, u) = 0
            /\ ~Held(u)
            /\ u \notin everDead

C1_Witness ==
    \E u \in Made : delivered[u] = 1 /\ fails[u] = maxRetriesDefault - 1

C3_RetryContract ==
    /\ \A k \in Keys : \A i \in 1..Len(chan[k]) :
           OrZero(parse(chan[k][i]).retryCount) <= maxRetriesDefault
    /\ lastRetry # NoRetry =>
        LET m == lastRetry.arg
            call == lastRetry.calls[1]
        IN  /\ Len(lastRetry.calls) = 1
            /\ OrZero(m.retryCount) < maxRetriesDefault =>
                   /\ call.queueName = QueueName(m.type)
                   /\ call.message = [m EXCEPT !.retryCount = OrZero(m.retryCount) + 1]
            /\ OrZero(m.retryCount) >= maxRetriesDefault =>
                   /\ call.queueName = DeadLetterName(m.type)
                   /\ call.message = m
            /\ ~lastRetry.threw =>
                   /\ Head(chan[call.queueName]) = stringify(call.message)
                   /\ \A k \in Keys \ {call.queueName} : Copies(k, m.uid) = 0

C3_Witness ==
    /\ lastRetry # NoRetry
    /\ ~lastRetry.threw
    /\ lastRetry.arg.retryCount = maxRetriesDefault
    /\ lastRetry.calls[1].queueName \in DeadKeys

\* C4: of two outgoing messages for the same (account, counterpart), the one
\* created first is the first to be handed to sock.sendMessage.
Position(u) == CHOOSE i \in 1..Len(firstSent) : firstSent[i] = u
WasSent(u) == \E i \in 1..Len(firstSent) : firstSent[i] = u
SameConversation(a, b) ==
    /\ origin[a].type = "outgoing" /\ origin[b].type = "outgoing"
    /\ origin[a].accountId = origin[b].accountId
    /\ origin[a].to = origin[b].to
C4_SendOrder ==
    \A a \in Made, b \in Made :
        (a < b /\ SameConversation(a, b) /\ WasSent(b)) =>
            WasSent(a) /\ Position(a) < Position(b)

RECURSIVE Reverse(_)
Reverse(seq) == IF seq = <<>> THEN <<>> ELSE Append(Reverse(Tail(seq)), Head(seq))

\* C5: each Redis list holds its elements in the order of their enqueue, the
\* newest at the head; a dequeue that returns a message returns the one that
\* was enqueued first among those in the list, and a dequeue returns nothing
\* exactly when the list is empty.
C5_Fifo ==
    /\ \A k \in Keys : chan[k] = Reverse(arrival[k])
    /\ \A w \in Workers :
           loop[w].pc \in {"limit", "in_delay"} => stringify(loop[w].msg) = loop[w].oldest
    /\ \A t \in Types :
           (dequeue(chan, TRUE, QueueName(t)).message = NoMsg) <=> (chan[QueueName(t)] = <<>>)

C5_Witness ==
    \E w \in Workers :
        /\ loop[w].pc = "limit"
        /\ loop[w].msg.uid = 1
        /\ Len(chan["outgoing:queue"]) = 1
        /\ created["outgoing"] = 2

(***************************************************************************)
(* QueueProcessor.start() and stop() as a caller may use them: stop()      *)
(* only clears the flag, so a processQueue that is blocked in dequeue or   *)
(* inside a handler when start() sets the flag again keeps running beside  *)
(* the new ones.                                                           *)
(***************************************************************************)
Unused == {w \in Workers : loop[w].queue = "none"}

\* start(): if (this.processing) return; this.processing = true; one
\* processQueue per registered processor, in the order of registration
start ==
    /\ Alive
    /\ ~processing
    /\ Unused # {}
    /\ LET first == CHOOSE w \in Unused : \A v \in Unused : w <= v
       IN  loop' = [loop EXCEPT ![first] = NewWorker("incoming"),
                                ![first + 1] = NewWorker("outgoing")]
    /\ processing' = TRUE
    /\ NoCalls
    /\ UNCHANGED <<chan, isConnected, limits, now, shutdown, created, origin, arrival,
                   everDead, fails, delivered, denied, lost, popCount, firstSent, granted,
                   inFlightAtStop>>
    /\ UNCHANGED <<sessionVars, crmVars, edgeVars>>

ApiStop ==
    /\ Alive
    /\ processing
    /\ stop
    /\ NoCalls
    /\ UNCHANGED <<chan, isConnected, loop, limits, now, shutdown, created, origin, arrival,
                   everDead, fails, delivered, denied, lost, popCount, firstSent, granted>>
    /\ UNCHANGED <<sessionVars, crmVars, edgeVars>>

NextRestart ==
    \/ \E a \in Accounts, c \in Counterparts : handleOutgoingMessage(a, c)
    \/ \E a \in Accounts, c \in Counterparts : handleIncomingMessage(a, c)
    \/ \E w \in Workers : BrPop(w)
    \/ \E w \in Workers : OutgoingLimit(w)
    \/ \E w \in Workers : OutgoingTyping(w)
    \/ \E w \in Workers : OutgoingIssueSend(w)
    \/ \E w \in Workers : OutgoingSendOk(w)
    \/ \E w \in Workers : IncomingDelay(w)
    \/ \E w \in Workers : IncomingSendOk(w)
    \/ ApiStop
    \/ start

SpecRestart == InitFresh /\ [][NextRestart]_vars

\* C6: no enqueued element is returned by two dequeue calls, and no two
\* workers hold the same message, whatever the interleaving of the dequeue
\* calls of the workers of one list.
C6_DequeuedAtMostOnce ==
    /\ \A e \in DOMAIN popCount : popCount[e] <= 1
    /\ \A v \in Workers, w \in Workers :
           (v # w /\ loop[v].msg # NoMsg) => loop[v].msg.uid # loop[w].msg.uid

C6_Witness ==
    \E v \in Workers, w \in Workers :
        /\ v # w
        /\ loop[v].queue = loop[w].queue
        /\ loop[v].msg # NoMsg
        /\ loop[w].msg # NoMsg

(***************************************************************************)
(* The signal handler of the entry point: stop(), disconnectAll(),         *)
(* queue.disconnect(), process.exit(0).                                    *)
(***************************************************************************)
NextShutdown ==
    \/ \E a \in Accounts, c \in Counterparts : handleOutgoingMessage(a, c)
    \/ \E a \in Accounts, c \in Counterparts : handleIncomingMessage(a, c)
    \/ \E w \in Workers : BrPop(w)
    \/ \E w \in Workers : SleepDone(w)
    \/ \E w \in Workers : OutgoingLimit(w)
    \/ \E w \in Workers : OutgoingTyping(w)
    \/ \E w \in Workers : OutgoingIssueSend(w)
    \/ \E w \in Workers : OutgoingNotConnected(w)
    \/ \E w \in Workers : OutgoingSendOk(w)
    \/ \E w \in Workers : OutgoingSendError(w)
    \/ \E w \in Workers : IncomingDelay(w)
    \/ \E w \in Workers : IncomingSendOk(w)
    \/ \E w \in Workers : IncomingSendFail(w)
    \/ SignalStop
    \/ SignalDisconnectAll
    \/ SignalQueueDisconnect
    \/ SignalExit

SpecShutdown == InitFresh /\ [][NextShutdown]_vars

\* C7: when stop() has returned, no handler invocation that was running when
\* it was called is still running, and no handler runs once the sessions and
\* the broker connection are being torn down.
C7_GracefulDrain ==
    /\ shutdown # "running" => inFlightAtStop = {}
    /\ shutdown \in {"sessionsClosed", "brokerClosed", "exited"} =>
           \A w \in Workers : loop[w].pc \notin HandlerPcs

\* C8: a rate-limit denial re-enqueues the message to "outgoing:queue" with
\* its retryCount as it was, and a message whose handler never threw is
\* never pushed to the dead-letter list.
C8_DenialNotCounted ==
    /\ (lastCheck # NoCheck /\ ~lastCheck.ok /\ lastRetry # NoRetry) =>
           /\ lastRetry.calls[1].queueName = "outgoing:queue"
           /\ OrZero(lastRetry.calls[1].message.retryCount) = OrZero(lastRetry.arg.retryCount)
    /\ \A u \in Made : fails[u] = 0 => u \notin everDead

\* C9: while every send succeeds, a message the rate limiter has denied is
\* not dropped: it stays with a worker or in "outgoing:queue" until it is
\* delivered, once, and no more than maxRequests messages of the account pass
\* the limiter in one window.
C9_Scenario3 ==
    /\ \A a \in DOMAIN granted : granted[a] <= maxRequests
    /\ \A u \in Made :
           denied[u] > 0 =>
               /\ Copies("outgoing:dead-letter", u) = 0
               /\ delivered[u] <= 1
               /\ Held(u) \/ Copies("outgoing:queue", u) = 1 \/ delivered[u] = 1

(***************************************************************************)
(* The rate limiter alone: checkLimit calls for two keys as the clock      *)
(* advances.                                                               *)
(***************************************************************************)
LimiterKeys == {"acc1", "acc2"}

InitLimiter == Boot(LimiterKeys, {NoEntry})

CheckLimitCall(key) ==
    /\ Checked(key, checkLimit(limits, key, now))
    /\ lastRetry' = NoRetry
    /\ UNCHANGED <<chan, isConnected, processing, loop, now, shutdown, created, origin,
                   arrival, everDead, fails, delivered, denied, lost, popCount, firstSent,
                   inFlightAtStop>>
    /\ UNCHANGED <<sessionVars, crmVars, edgeVars>>

NextLimiter ==
    \/ \E key \in LimiterKeys : CheckLimitCall(key)
    \/ Tick

SpecLimiter == InitLimiter /\ [][NextLimiter]_vars

\* C10: for each key at most maxRequests calls return true in one window and
\* the stored count is in 1..maxRequests; a call inside a window in which
\* maxRequests calls were granted returns false and leaves the entry as it
\* is, a call inside a window with fewer grants returns true, and a call
\* after resetAt returns true and stores count 1 with a new resetAt.
C10_FixedWindow ==
    /\ \A k \in DOMAIN limits :
           /\ granted[k] <= maxRequests
           /\ limits[k] # NoEntry => limits[k].count \in 1..maxRequests
           /\ limits[k].count = granted[k]
    /\ lastCheck # NoCheck =>
           LET before == lastCheck.before
               inWindow == before # NoEntry /\ lastCheck.t <= before.resetAt
           IN  /\ (inWindow /\ lastCheck.grantedBefore >= maxRequests) =>
                      ~lastCheck.ok /\ lastCheck.after = before
               /\ (inWindow /\ lastCheck.grantedBefore < maxRequests) => lastCheck.ok
               /\ ~inWindow =>
                      /\ lastCheck.ok
                      /\ lastCheck.after =
                             [count |-> 1, resetAt |-> lastCheck.t + windowMs]

C10_Witness ==
    /\ lastCheck # NoCheck
    /\ ~lastCheck.ok
    /\ lastCheck.grantedBefore = maxRequests
    /\ lastCheck.t = lastCheck.before.resetAt

(***************************************************************************)
(* A burst of outgoing media messages of one account inside one window.    *)
(***************************************************************************)
MediaBurstSize == mediaMaxRequests + 1

handleOutgoingMedia(accountId, to) == Produce("outgoing", accountId, to, TRUE, MediaBurstSize)

NextMedia ==
    \/ \E a \in Accounts, to \in Counterparts : handleOutgoingMedia(a, to)
    \/ \E w \in Workers : BrPop(w)
    \/ \E w \in Workers : OutgoingLimit(w)
    \/ \E w \in Workers : OutgoingTyping(w)
    \/ \E w \in Workers : OutgoingMediaSend(w)
    \/ \E w \in Workers : OutgoingMediaNoFile(w)
    \/ \E w \in Workers : OutgoingSendOk(w)

SpecMedia == InitFresh /\ [][NextMedia]_vars

MediaSent(a) == {u \in Made : origin[u].media /\ origin[u].accountId = a /\ WasSent(u)}
TextSent(a) == {u \in Made : ~origin[u].media /\ origin[u].accountId = a /\ WasSent(u)}

\* C11: inside one window (the clock stands still) at most mediaMaxRequests
\* media messages and at most maxRequests text messages of one account are
\* handed to the socket.
C11_MediaLimit ==
    \A a \in Accounts :
        /\ Cardinality(MediaSent(a)) <= mediaMaxRequests
        /\ Cardinality(TextSent(a)) <= maxRequests

\* C12: the rate-limit check of a message is made after its typing
\* simulation and its random delay: a message that has just passed the check
\* is not waiting for its typing simulation or its delay.
C12_ThrottleOrder ==
    (lastCheck # NoCheck /\ lastCheck.ok) =>
        \A w \in Workers :
            loop[w].msg # NoMsg /\ loop[w].msg.accountId = lastCheck.key =>
                loop[w].pc \notin {"typing", "delay"}

(***************************************************************************)
(* WhatsAppManager and WhatsAppClient: addAccount, connect, the socket's   *)
(* 'connection.update' events, handleDisconnect and its timer,             *)
(* removeAccount and disconnect.                                           *)
(***************************************************************************)
RECURSIVE Pow2(_)
Pow2(n) == IF n = 0 THEN 1 ELSE 2 * Pow2(n - 1)
Min(a, b) == IF a < b THEN a ELSE b

\* this.updateAccountStatus(accountId, updates): only when an entry exists
updateAccountStatus(st, a, connected, lastError) ==
    IF st[a] = NoStatus THEN st
    ELSE [st EXCEPT ![a] = [connected |-> connected, lastError |-> lastError]]

\* WhatsAppManager.getAccountStatus
getAccountStatus(a) == accountStatuses[a]

\* handleDisconnect as it would be with `>` for `>=`
handleDisconnectGt(o) ==
    IF o.reconnectAttempts > maxReconnectAttempts
    THEN o
    ELSE [o EXCEPT !.reconnectAttempts = @ + 1,
                   !.delay = Min(backoffBaseMs * Pow2(o.reconnectAttempts + 1), backoffCapMs),
                   !.reconnectTimeout = "set", !.timer = TRUE]

\* handleDisconnect as it would be without Math.min
handleDisconnectNoCap(o) ==
    IF o.reconnectAttempts >= maxReconnectAttempts
    THEN o
    ELSE [o EXCEPT !.reconnectAttempts = @ + 1,
                   !.delay = backoffBaseMs * Pow2(o.reconnectAttempts + 1),
                   !.reconnectTimeout = "set", !.timer = TRUE]

\* WhatsAppClient.handleDisconnect on the client object o
handleDisconnect(o) ==
    IF o.reconnectAttempts >= maxReconnectAttempts
    THEN o
    ELSE [o EXCEPT !.reconnectAttempts = @ + 1,
                   !.delay = Min(backoffBaseMs * Pow2(o.reconnectAttempts + 1), backoffCapMs),
                   !.reconnectTimeout = "set", !.timer = TRUE]

LinkAlive(o) == o.link \in {"connecting", "open"}

\* addAccount: the map has no client for the id; a client object is made and
\* stored, the status entry is set, connect() is called and suspends at
\* createAuthState
addAccount(a) ==
    /\ clients[a] = NoClient
    /\ \E c \in ClientIds :
        /\ ~wa[c].born
        /\ \A d \in ClientIds : d < c => wa[d].born
        /\ wa' = [wa EXCEPT ![c] = [Unborn EXCEPT !.born = TRUE, !.accountId = a,
                                                    !.connectPc = "auth", !.via = "add"]]
        /\ clients' = [clients EXCEPT ![a] = c]
    /\ accountStatuses' = [accountStatuses EXCEPT ![a] = [connected |-> FALSE, lastError |-> "none"]]
    /\ UNCHANGED <<queueVars, crmVars, edgeVars>>

\* connect(): createAuthState and fetchLatestBaileysVersion resolved;
\* this.sock = makeWASocket(...), the handlers are set
MakeSocket(c, max) ==
    /\ wa[c].connectPc = "auth"
    /\ wa[c].gen < max
    /\ wa' = [wa EXCEPT ![c].connectPc = "idle", ![c].sock = "set",
                        ![c].link = "connecting", ![c].gen = @ + 1]
    /\ UNCHANGED <<queueVars, clients, accountStatuses, crmVars, edgeVars>>

ConnectMakesSocket(c) == MakeSocket(c, MaxSockets)

\* connect() throws: addAccount's catch sets the status entry and rethrows,
\* the timer's catch only logs
ConnectThrows(c) ==
    /\ wa[c].connectPc = "auth"
    /\ wa' = [wa EXCEPT ![c].connectPc = "idle"]
    /\ accountStatuses' =
           IF wa[c].via = "add"
           THEN [accountStatuses EXCEPT ![wa[c].accountId] =
                    [connected |-> FALSE, lastError |-> "connect failed"]]
           ELSE accountStatuses
    /\ UNCHANGED <<queueVars, clients, crmVars, edgeVars>>

\* 'connection.update' with connection === 'open' as it would be with an
\* onConnected that leaves reconnectAttempts alone
ConnectionOpenKeepsAttempts(c) ==
    /\ wa[c].link = "connecting"
    /\ wa[c].opens < MaxOpens
    /\ wa' = [wa EXCEPT ![c].link = "open", ![c].opens = @ + 1, ![c].sinceOpen = 0]
    /\ accountStatuses' = updateAccountStatus(accountStatuses, wa[c].accountId, TRUE, "none")
    /\ UNCHANGED <<queueVars, clients, crmVars, edgeVars>>

\* 'connection.update' with connection === 'open'
ConnectionOpen(c) ==
    /\ wa[c].link = "connecting"
    /\ wa[c].opens < MaxOpens
    /\ wa' = [wa EXCEPT ![c].link = "open", ![c].reconnectAttempts = 0,
                        ![c].opens = @ + 1, ![c].sinceOpen = 0]
    /\ accountStatuses' = updateAccountStatus(accountStatuses, wa[c].accountId, TRUE, "none")
    /\ UNCHANGED <<queueVars, clients, crmVars, edgeVars>>

\* 'connection.update' with connection === 'close': callbacks.onDisconnected
\* (reason), which updates the status and calls this.handleDisconnect()
ConnectionClose(c, reason) ==
    LET o == [wa[c] EXCEPT !.link = "closed"]
        h == handleDisconnect(o)
        scheduled == h # o
    IN  /\ LinkAlive(wa[c])
        /\ wa' = [wa EXCEPT ![c] =
                    [h EXCEPT !.sinceOpen = IF scheduled THEN @ + 1 ELSE @,
                              !.lastClose = [reason |-> reason, before |-> o.reconnectAttempts,
                                             after |-> h.reconnectAttempts,
                                             scheduled |-> scheduled]]]
        /\ accountStatuses' = updateAccountStatus(accountStatuses, wa[c].accountId, FALSE, reason)
        /\ UNCHANGED <<queueVars, clients, crmVars, edgeVars>>

\* the timer set by handleDisconnect fires: this.connect()
ReconnectTimer(c) ==
    /\ wa[c].timer
    /\ wa[c].connectPc = "idle"
    /\ wa' = [wa EXCEPT ![c].timer = FALSE, ![c].connectPc = "auth", ![c].via = "timer"]
    /\ UNCHANGED <<queueVars, clients, accountStatuses, crmVars, edgeVars>>

\* client.disconnect() up to its await: clearTimeout, then sock.end()
disconnectBegin(o) ==
    LET cleared == IF o.reconnectTimeout = "set"
                   THEN [o EXCEPT !.reconnectTimeout = "null", !.timer = FALSE]
                   ELSE o
    IN  IF cleared.sock = "set"
        THEN [cleared EXCEPT !.disconnectPc = "ending", !.endGen = cleared.gen]
        ELSE cleared

\* removeAccount: the client is looked up and disconnect() is called; with no
\* socket it returns at once and the three map entries are deleted
removeAccount(a) ==
    LET c == clients[a]
        o == disconnectBegin(wa[c])
    IN  /\ c # NoClient
        /\ wa[c].disconnectPc = "idle"
        /\ IF o.disconnectPc = "ending"
           THEN /\ wa' = [wa EXCEPT ![c] = o]
                /\ UNCHANGED <<clients, accountStatuses>>
           ELSE /\ wa' = [wa EXCEPT ![c] = [o EXCEPT !.removed = TRUE]]
                /\ clients' = [clients EXCEPT ![a] = NoClient]
                /\ accountStatuses' = [accountStatuses EXCEPT ![a] = NoStatus]
        /\ UNCHANGED <<queueVars, crmVars, edgeVars>>

\* sock.end() resolved: this.sock = null; back in removeAccount the map
\* entries of the id are deleted
RemoveAccountDone(c) ==
    LET a == wa[c].accountId
    IN  /\ wa[c].disconnectPc = "ending"
        /\ wa' = [wa EXCEPT ![c].disconnectPc = "idle", ![c].sock = "null",
                            ![c].link = IF wa[c].gen = wa[c].endGen THEN "ended" ELSE @,
                            ![c].removed = TRUE]
        /\ clients' = [clients EXCEPT ![a] = NoClient]
        /\ accountStatuses' = [accountStatuses EXCEPT ![a] = NoStatus]
        /\ UNCHANGED <<queueVars, crmVars, edgeVars>>

NextSession ==
    \/ \E a \in Accounts : addAccount(a)
    \/ \E c \in ClientIds : ConnectMakesSocket(c)
    \/ \E c \in ClientIds : ConnectThrows(c)
    \/ \E c \in ClientIds : ConnectionOpen(c)
    \/ \E c \in ClientIds, reason \in Reasons : ConnectionClose(c, reason)
    \/ \E c \in ClientIds : ReconnectTimer(c)
    \/ \E a \in Accounts : removeAccount(a)
    \/ \E c \in ClientIds : RemoveAccountDone(c)

SpecSession == InitFresh /\ [][NextSession]_vars

(***************************************************************************)
(* One account that is added and never removed: its socket closes and is   *)
(* remade until the reconnect attempts are used up.                        *)
(***************************************************************************)
BackoffSockets == (MaxOpens + 1) * (maxReconnectAttempts + 1)

ConnectMakesSocketAgain(c) == MakeSocket(c, BackoffSockets)

NextBackoff ==
    \/ \E a \in Accounts : addAccount(a)
    \/ \E c \in ClientIds : ConnectMakesSocketAgain(c)
    \/ \E c \in ClientIds : ConnectThrows(c)
    \/ \E c \in ClientIds : ConnectionOpen(c)
    \/ \E c \in ClientIds, reason \in Reasons : ConnectionClose(c, reason)
    \/ \E c \in ClientIds : ReconnectTimer(c)

SpecBackoff == InitFresh /\ [][NextBackoff]_vars

(***************************************************************************)
(* Properties of the session manager                                       *)
(***************************************************************************)
\* C13: a client object whose removeAccount has returned has no reconnect
\* timer waiting and no connect() running.
C13_NoReconnectAfterRemove ==
    \A c \in ClientIds :
        wa[c].removed => ~wa[c].timer /\ wa[c].connectPc = "idle"

\* C14: a close whose reason is loggedOut schedules no reconnect timer and
\* leaves reconnectAttempts as it was.
C14_NoReconnectOnLogout ==
    \A c \in ClientIds :
        wa[c].lastClose.reason = loggedOut =>
            /\ ~wa[c].lastClose.scheduled
            /\ wa[c].lastClose.after = wa[c].lastClose.before

\* the delays of the attempts 1..maxReconnectAttempts
Delays == <<2000, 4000, 8000, 16000, 30000>>

\* C15: reconnectAttempts stays in 0..maxReconnectAttempts, at most
\* maxReconnectAttempts reconnects are scheduled since the last 'open' (or
\* since the client was made), and a reconnect scheduled as attempt n waits
\* min(1000 * 2^n, 30000) ms, which is never more than 30000 ms.
C15_Backoff ==
    \A c \in ClientIds :
        /\ wa[c].reconnectAttempts \in 0..maxReconnectAttempts
        /\ wa[c].sinceOpen <= maxReconnectAttempts
        /\ wa[c].delay <= backoffCapMs
        /\ wa[c].lastClose.scheduled =>
               /\ wa[c].lastClose.after = wa[c].lastClose.before + 1
               /\ wa[c].delay = Delays[wa[c].lastClose.after]
        /\ (wa[c].lastClose.reason # "none" /\ ~wa[c].lastClose.scheduled) =>
               wa[c].lastClose.before = maxReconnectAttempts

C15_Witness ==
    \E c \in ClientIds :
        /\ wa[c].lastClose.scheduled
        /\ wa[c].lastClose.after = maxReconnectAttempts
        /\ wa[c].delay = backoffCapMs
        /\ wa[c].opens = 1

\* the client's reconnect attempts are used up: its last close found
\* reconnectAttempts at the maximum and scheduled nothing
ReconnectExhausted(o) ==
    /\ o.link = "closed"
    /\ o.lastClose.reason # "none"
    /\ ~o.lastClose.scheduled
    /\ o.reconnectAttempts = maxReconnectAttempts

\* the statuses an account shows whose connection is down and which will
\* still be reconnected
OrdinaryDisconnected ==
    {[connected |-> FALSE, lastError |-> e] : e \in Reasons \cup {"none", "connect failed"}}

\* C16: the status query of an account whose reconnect attempts are used up
\* returns an entry, and that entry differs from the one of an account
\* that is merely disconnected.
C16_FailedStatus ==
    \A a \in Accounts :
        (clients[a] # NoClient /\ ReconnectExhausted(wa[clients[a]])) =>
            /\ getAccountStatus(a) # NoStatus
            /\ getAccountStatus(a) \notin OrdinaryDisconnected

LiveFor(a) == {c \in ClientIds : wa[c].born /\ wa[c].accountId = a /\ LinkAlive(wa[c])}

\* C17: per account id at most one socket is alive, a client object whose
\* removeAccount has returned has no live socket, and the live socket of an
\* id belongs to the client the map holds for it.
C17_OneConnectionPerAccount ==
    \A a \in Accounts :
        /\ Cardinality(LiveFor(a)) <= 1
        /\ \A c \in LiveFor(a) : ~wa[c].removed /\ clients[a] = c

(***************************************************************************)
(* AmoCRMAPI.sendMessage: with a scope_id, sendScopedMessage posts the     *)
(* payload variants in turn; without one, the three trySend methods are    *)
(* tried.  axios rejects on a status outside 2xx.                          *)
(***************************************************************************)
payloadFormatNames == <<"with_event_type", "direct_fields", "with_message_top">>
methods == <<"trySendViaApiV4", "trySendViaAmojoV2", "trySendViaAmojoV2Alternative">>
Responses == {"200", "404", "401", "500"}

Tried(c, name, response) ==
    Append(c.tried, [pass |-> c.pass, name |-> name, response |-> response])

Done(c, result) == [c EXCEPT !.pc = "done", !.result = result]

\* the variant loop as it would be if every error went on to the next variant
afterResponseAlwaysNext(c, response) ==
    LET t == [c EXCEPT !.tried = Tried(c, payloadFormatNames[c.i], response)]
    IN  IF response = "200" THEN Done(t, "ok")
        ELSE IF c.i < Len(payloadFormatNames) THEN [t EXCEPT !.i = @ + 1]
        ELSE IF response = "401" THEN [t EXCEPT !.pc = "refresh"]
        ELSE Done(t, "SEND_SCOPED_MESSAGE_ERROR")

\* one axios.post of the variant loop and what the two catch blocks make of
\* its outcome: 2xx returns, 404 continues (after the last variant lastError
\* is thrown), any other error is rethrown; the outer catch refreshes on 401
\* and wraps everything else
afterResponse(c, response) ==
    LET t == [c EXCEPT !.tried = Tried(c, payloadFormatNames[c.i], response)]
    IN  IF response = "200" THEN Done(t, "ok")
        ELSE IF response = "404"
        THEN IF c.i < Len(payloadFormatNames)
             THEN [t EXCEPT !.i = @ + 1]
             ELSE Done(t, "SEND_SCOPED_MESSAGE_ERROR")
        ELSE IF response = "401" THEN [t EXCEPT !.pc = "refresh"]
        ELSE Done(t, "SEND_SCOPED_MESSAGE_ERROR")

\* const conversationIdToUse = normalizedChatId (the saved id ignored)
conversationIdProvisional(saved, normalized) == normalized

\* const conversationIdToUse = savedConversationId || normalizedChatId
conversationIdToUse(saved, normalized) == IF saved # None THEN saved ELSE normalized

\* sendScopedMessage up to the variant loop: the chat id is normalized, a
\* chat id without digits throws INVALID_PHONE_NUMBER (wrapped by the outer
\* catch), the saved conversation id is looked up
sendScopedMessage(c, rows) ==
    LET n == normalizeChatId(c.chatId)
        p == digitsOnly(n)
        l == [c EXCEPT !.normalizedChatId = n, !.phoneNumber = p, !.pc = "variant", !.i = 1,
                       !.pass = @ + 1]
    IN  IF p = <<>> THEN Done(l, "SEND_SCOPED_MESSAGE_ERROR")
        ELSE [l EXCEPT !.conversationIdToUse =
                           conversationIdToUse(getConversationId(rows, c.accountId, p), n)]

\* response.data of a 2xx answer: an object with some of the three fields,
\* or anything that is not an object
NoObject == [object |-> FALSE, new_message |-> None, conversation_id |-> None, id |-> None]
ResponseData ==
    [object : {TRUE}, new_message : ThreadIds \cup {None},
     conversation_id : ThreadIds \cup {None}, id : ThreadIds \cup {None}] \cup {NoObject}

\* the id looked up in the reverse order: id, conversation_id, new_message
returnedConversationIdReversed(data) ==
    IF ~data.object THEN None
    ELSE IF data.id # None THEN data.id
    ELSE IF data.conversation_id # None THEN data.conversation_id
    ELSE data.new_message

\* response.data.new_message?.conversation_id || response.data.conversation_id
\* || response.data.id
returnedConversationId(data) ==
    IF ~data.object THEN None
    ELSE IF data.new_message # None THEN data.new_message
    ELSE IF data.conversation_id # None THEN data.conversation_id
    ELSE data.id

\* sendMessage(chatId, content): tokens.scope_id or amocrmConfig.scopeId
\* selects sendScopedMessage, otherwise the three methods are tried
sendMessage(a, chatId, scope) ==
    LET c == [NoCall EXCEPT !.scope = scope, !.accountId = a, !.chatId = chatId,
                            !.call = crm.call + 1]
    IN  /\ crm.pc \in {"idle", "done"}
        /\ crm.call < MaxCalls
        /\ crm' = IF scope = "bound" THEN sendScopedMessage(c, conversations)
                  ELSE [c EXCEPT !.pc = "fallback", !.i = 1]
        /\ UNCHANGED <<queueVars, sessionVars, edgeVars, conversations, learned>>

\* one request of the variant loop; a 2xx answer that carries a conversation
\* id has it saved under (accountId, phoneNumber); the body of an error
\* answer is not looked at
VariantRequest(response, data) ==
    LET t == IF response = "200" THEN returnedConversationId(data) ELSE None
        saves == t # None /\ Len(crm.phoneNumber) > 0
    IN  /\ crm.pc = "variant"
        /\ response # "200" => data = NoObject
        /\ crm' = [afterResponse(crm, response) EXCEPT !.returned = t]
        /\ conversations' =
               IF saves THEN saveConversationId(conversations, crm.accountId, crm.phoneNumber, t)
               ELSE conversations
        /\ learned' = IF saves THEN [learned EXCEPT ![<<crm.accountId, crm.phoneNumber>>] = t]
                      ELSE learned
        /\ UNCHANGED <<queueVars, sessionVars, edgeVars>>

\* await this.oauth.refreshTokens(); return this.sendScopedMessage(...)
RefreshTokens(ok) ==
    /\ crm.pc = "refresh"
    /\ ok => crm.pass < MaxPasses
    /\ crm' = IF ok
              THEN sendScopedMessage([crm EXCEPT !.refreshes = @ + 1], conversations)
              ELSE Done([crm EXCEPT !.refreshes = @ + 1], "TOKEN_REFRESH_ERROR")
    /\ UNCHANGED <<queueVars, sessionVars, edgeVars, conversations, learned>>

\* one of the three methods of sendMessage's loop returned or threw
FallbackMethod(ok) ==
    LET t == [crm EXCEPT !.tried = Tried(crm, methods[crm.i], IF ok THEN "200" ELSE "500")]
    IN  /\ crm.pc = "fallback"
        /\ crm' = IF ok THEN Done(t, "ok")
                  ELSE IF crm.i < Len(methods) THEN [t EXCEPT !.i = @ + 1]
                  ELSE Done(t, "SEND_MESSAGE_ERROR")
        /\ UNCHANGED <<queueVars, sessionVars, edgeVars, conversations, learned>>

NextCrm ==
    \/ \E a \in CrmAccounts, chatId \in ChatIds, scope \in {"bound", "none"} :
           sendMessage(a, chatId, scope)
    \/ \E response \in Responses, data \in ResponseData : VariantRequest(response, data)
    \/ \E ok \in BOOLEAN : RefreshTokens(ok)
    \/ \E ok \in BOOLEAN : FallbackMethod(ok)

SpecCrm == InitFresh /\ [][NextCrm]_vars

(***************************************************************************)
(* Properties of the CRM client                                            *)
(***************************************************************************)
PassEntries(p) == SelectSeq(crm.tried, LAMBDA e : e.pass = p)
Scoped == crm.scope = "bound" /\ crm.pc # "idle"

\* C18: one sendMessage call refreshes the tokens at most once and runs the
\* variant chain at most twice; a 401 in the second run ends the call with
\* an error.
C18_RefreshOnce ==
    Scoped =>
        /\ crm.refreshes <= 1
        /\ crm.pass <= 2
        /\ \A k \in 1..Len(crm.tried) :
               (crm.tried[k].pass = 2 /\ crm.tried[k].response = "401") =>
                   crm.pc = "done" /\ crm.result # "ok"

\* in every run of the chain the variants are posted in the order of
\* payloadFormatNames and every request but the last of the run got 404
VariantOrder ==
    \A p \in 1..crm.pass :
        LET es == PassEntries(p)
        IN  \A k \in 1..Len(es) :
                /\ k <= Len(payloadFormatNames)
                /\ es[k].name = payloadFormatNames[k]
                /\ k < Len(es) => es[k].response = "404"

\* a 2xx response is the last request of the call, which then returned
SuccessStops ==
    \A k \in 1..Len(crm.tried) :
        crm.tried[k].response = "200" =>
            k = Len(crm.tried) /\ crm.pc = "done" /\ crm.result = "ok"

\* after 404 for the last variant the call has thrown
AllNotFound ==
    LET es == PassEntries(crm.pass)
    IN  (Len(es) = Len(payloadFormatNames) /\ es[Len(es)].response = "404") =>
            crm.pc = "done" /\ crm.result # "ok"

\* C19 as stated: the variants are tried in order, 404 goes on to the next,
\* the first success stops the chain, 404 for every variant fails the send,
\* and after any other error no further request is made and the send fails.
C19_AnyOtherErrorFails ==
    Scoped =>
        /\ VariantOrder
        /\ SuccessStops
        /\ AllNotFound
        /\ \A k \in 1..Len(crm.tried) :
               crm.tried[k].response \in {"401", "500"} =>
                   k = Len(crm.tried) /\ crm.result # "ok"

\* C19 amended: the same, except that after 401 the tokens are refreshed and
\* the chain is run again from its first variant: an error other than 404
\* and 401 is the last request of the call, which has thrown; a 401 is the
\* last request of its run of the chain.
C19_VariantChain ==
    Scoped =>
        /\ VariantOrder
        /\ SuccessStops
        /\ AllNotFound
        /\ \A k \in 1..Len(crm.tried) :
               /\ crm.tried[k].response = "500" =>
                      k = Len(crm.tried) /\ crm.pc = "done" /\ crm.result # "ok"
               /\ crm.tried[k].response = "401" =>
                      /\ k < Len(crm.tried) => crm.tried[k + 1].pass = crm.tried[k].pass + 1
                      /\ k = Len(crm.tried) =>
                             /\ crm.result # "ok"
                             /\ \/ crm.pc \in {"refresh", "done"}
                                \/ /\ crm.pc = "variant"
                                   /\ crm.i = 1
                                   /\ crm.pass = crm.tried[k].pass + 1

C19_Witness ==
    /\ Scoped
    /\ crm.pc = "done"
    /\ crm.pass = 1
    /\ Len(crm.tried) = 2
    /\ crm.tried[1].response = "404"
    /\ crm.tried[2].response = "500"

\* C20: a sendMessage call for an account without scope_id makes no request
\* and throws a configuration error.
C20_NoScopeFailsFast ==
    (crm.scope = "none" /\ crm.pc # "idle") =>
        /\ crm.tried = <<>>
        /\ crm.pc = "done"
        /\ crm.result = "NO_SCOPE_ID"

(***************************************************************************)
(* Properties of the conversation mapping                                  *)
(***************************************************************************)
CallKey == <<crm.accountId, crm.phoneNumber>>
ScopedInFlight == crm.scope = "bound" /\ crm.pc \in {"variant", "refresh"}
ScopedSuccess == crm.scope = "bound" /\ crm.pc = "done" /\ crm.result = "ok"

\* C21: once a scoped send for (account, counterpart) succeeded with a
\* response that carries thread id t, getConversationId(account, counterpart)
\* returns t with no further send, and the next scoped send for the pair
\* posts t as its conversation id; the normalized chat id is used only while
\* no id has been learned
C21_ThreadRoundTrip ==
    /\ (ScopedSuccess /\ crm.returned # None) =>
           getConversationId(conversations, crm.accountId, crm.phoneNumber) = crm.returned
    /\ ScopedInFlight =>
           crm.conversationIdToUse =
               IF learned[CallKey] # None THEN learned[CallKey] ELSE crm.normalizedChatId

\* the second call for a pair is under way with the id the first one learned,
\* although its chat id is written differently
C21_Witness ==
    /\ ScopedInFlight
    /\ crm.call = 2
    /\ learned[CallKey] = "t1"
    /\ crm.conversationIdToUse = "t1"
    /\ crm.chatId = <<"+", "7", "9", "-", "1", "@", "s">>
    /\ crm.normalizedChatId = <<"+", "7", "9">>
    /\ Len(crm.tried) > 0

\* a step in which sendScopedMessage saved the id of a 2xx response
Saved == crm.pc = "variant" /\ crm'.pc = "done" /\ crm'.result = "ok" /\ crm'.returned # None
StoreKeys == CrmAccounts \X Phones

\* C22: saveConversationId is an upsert keyed by (account_id, phone_number):
\* after a save the key has exactly one row holding the saved id, saving
\* what the row already holds changes nothing, no other key's row changes
\* (the same phone under another account included), and no step removes a
\* row or touches the table without a save
C22_Upsert ==
    [][/\ \A k \in StoreKeys : Cardinality(RowsOf(conversations', k[1], k[2])) <= 1
       /\ \A r \in conversations : RowsOf(conversations', r.account_id, r.phone_number) # {}
       /\ IF Saved
          THEN /\ RowsOf(conversations', crm.accountId, crm.phoneNumber)
                      = {Row(crm.accountId, crm.phoneNumber, crm'.returned)}
               /\ \A k \in StoreKeys \ {CallKey} :
                      RowsOf(conversations', k[1], k[2]) = RowsOf(conversations, k[1], k[2])
               /\ getConversationId(conversations, crm.accountId, crm.phoneNumber)
                      = crm'.returned => conversations' = conversations
          ELSE conversations' = conversations]_vars

\* the same phone number has a row under each account, with different ids,
\* the second written by the send that just returned
C22_Witness ==
    /\ ScopedSuccess
    /\ crm.call = 2
    /\ crm.returned = "t2"
    /\ conversations = {Row("acc1", <<"7", "9">>, "t1"), Row("acc2", <<"7", "9">>, "t2")}

(***************************************************************************)
(* The entry point: the webhook route hands the validated payload to       *)
(* handleOutgoingMessage and answers at once; the socket's                 *)
(* 'messages.upsert' handler filters each message and hands it, through    *)
(* onMessage and the manager's 'message' event, to handleIncomingMessage.  *)
(* The repository holds the entry point in more than one copy: the one at  *)
(* src/index.ts and the later one that checks the account, strips the chat *)
(* id to its digits and skips groups.  Either may be the one that runs.    *)
(***************************************************************************)
IndexTs == "src/index.ts"
LaterCopy == "part_004"
EntryPoints == {IndexTs, LaterCopy}

Suffix == <<"@", "s", ".", "w", "h", "a", "t", "s", "a", "p", "p", ".", "n", "e", "t">>
Word == <<"w", "h", "a", "t", "s", "a", "p", "p">>
Whitespace == {" "}

\* the /i flag of the regular expression
Lower(ch) == IF ch = "W" THEN "w" ELSE IF ch = "A" THEN "a" ELSE ch

RECURSIVE dropWhile(_, _)
dropWhile(s, set) == IF s # <<>> /\ Head(s) \in set THEN dropWhile(Tail(s), set) ELSE s

\* phoneNumber.replace(/^WhatsApp\s+/i, '')
stripPrefix(s) ==
    IF /\ Len(s) > Len(Word)
       /\ [i \in 1..Len(Word) |-> Lower(s[i])] = Word
       /\ s[Len(Word) + 1] \in Whitespace
    THEN dropWhile(SubSeq(s, Len(Word) + 1, Len(s)), Whitespace)
    ELSE s

\* phoneNumber.includes('@')
includes(s, ch) == \E i \in 1..Len(s) : s[i] = ch

\* the address as src/index.ts builds it: the chat id as it came
toOfChatId(chat_id) == IF includes(chat_id, "@") THEN chat_id ELSE chat_id \o Suffix

\* the address as the later copy builds it: prefix removed, digits only
toOfDigits(chat_id) ==
    LET phoneNumber == digitsOnly(stripPrefix(chat_id))
    IN  IF includes(phoneNumber, "@") THEN phoneNumber ELSE phoneNumber \o Suffix

WebhookChatIds ==
    {<<"7", "9">>,
     <<"W", "h", "a", "t", "s", "A", "p", "p", " ", "7", "9">>,
     <<"+", "7", " ", "9">>,
     <<"x">>,
     <<"7", "9", "@", "c", ".", "u", "s">>}

\* id: `outgoing_${payload.account_id}_${Date.now()}` and
\* `incoming_${message.messageId}_${Date.now()}`
idOf(type, key, t) == <<type, key, t>>

\* the message is built and handed to queue.enqueue; r is what enqueue did
Enqueue(message, id, r) ==
    /\ chan' = r.chan
    /\ arrival' = IF r.threw THEN arrival
                  ELSE [arrival EXCEPT ![QueueName(message.type)] = Append(@, stringify(message))]
    /\ created' = IF r.threw THEN created ELSE [created EXCEPT ![message.type] = @ + 1]
    /\ origin' = IF r.threw THEN origin ELSE [origin EXCEPT ![message.uid] = message]
    /\ ids' = IF r.threw THEN ids ELSE Append(ids, id)

NoEnqueue == UNCHANGED <<chan, arrival, created, origin, ids>>

\* what handleOutgoingMessage does with a valid payload, up to the enqueue:
\* the later copy throws for an account that is absent or not connected and
\* for a chat id without digits; src/index.ts throws nothing
outgoingRejects(copy, status, chat_id) ==
    /\ copy = LaterCopy
    /\ \/ status.lastError = "absent"
       \/ ~status.connected
       \/ digitsOnly(stripPrefix(chat_id)) = <<>>

\* POST webhook: validateWebhookRequest, then onMessage(payload).catch(log)
\* and res.status(200).json({status: 'ok'}); an invalid body is answered 400
Webhook(copy, a, chat_id, valid, conversation_id) ==
    LET to == IF copy = LaterCopy THEN toOfDigits(chat_id) ELSE toOfChatId(chat_id)
        message == NewMessage("outgoing", a, to, FALSE)
        r == enqueue(chan, isConnected, QueueName("outgoing"), message)
        rejected == outgoingRejects(copy, getAccountStatus(a), chat_id)
        saves == valid /\ ~rejected /\ copy = LaterCopy /\ conversation_id # None
    IN  /\ Alive
        /\ created["incoming"] + created["outgoing"] < MaxMessages
        /\ IF valid /\ ~rejected THEN Enqueue(message, idOf("outgoing", a, now), r) ELSE NoEnqueue
        /\ conversations' =
               IF saves
               THEN saveConversationId(conversations, a, digitsOnly(stripPrefix(chat_id)),
                                       conversation_id)
               ELSE conversations
        /\ http' = [copy |-> copy, account_id |-> a, chat_id |-> chat_id,
                    status |-> IF valid THEN 200 ELSE 400,
                    outcome |-> IF ~valid THEN "invalid"
                                ELSE IF rejected THEN "rejected"
                                ELSE IF r.threw THEN "enqueue_failed" ELSE "enqueued",
                    to |-> IF valid /\ ~rejected THEN to ELSE <<>>]
        /\ NoCalls
        /\ UNCHANGED <<isConnected, processing, loop, limits, now, shutdown, everDead, fails,
                       delivered, denied, lost, popCount, firstSent, granted, inFlightAtStop>>
        /\ UNCHANGED <<sessionVars, crm, learned, upsert, outcomes>>

\* the messages a socket can deliver: own sends, chats with a user, a group
\* or the status list, with no content, a text, a media message or one of
\* the two control messages
RemoteJids == {"user@s.whatsapp.net", "group@g.us", "status@broadcast"}
Contents ==
    {NoContent, "conversation", "imageMessage", "protocolMessage",
     "senderKeyDistributionMessage"}
Frames == [fromMe : BOOLEAN, remoteJid : RemoteJids, content : Contents]

\* getContentType(msg.message): the key of the content
getContentType(content) == content

\* the checks of the 'messages.upsert' loop with the fromMe check left out
skipsButFromMe(frame) ==
    \/ frame.remoteJid = "status@broadcast"
    \/ frame.content = NoContent
    \/ getContentType(frame.content) \in {"protocolMessage", "senderKeyDistributionMessage"}

\* the checks of the 'messages.upsert' loop that end in `continue`
skips(frame) ==
    \/ frame.fromMe
    \/ frame.remoteJid = "status@broadcast"
    \/ frame.content = NoContent
    \/ getContentType(frame.content) \in {"protocolMessage", "senderKeyDistributionMessage"}

\* msg.key.remoteJid?.endsWith('@g.us')
isGroup(frame) == frame.remoteJid = "group@g.us"

\* one message of a 'messages.upsert' event: fresh says that the event is a
\* 'notify', or an 'append' whose message is not older than an hour.  A
\* message that passes is given to onMessage; handleIncomingMessage (the
\* later copy returns on isGroup) enqueues it and its catch only logs
MessagesUpsert(copy, a, frame, fresh) ==
    LET passes == fresh /\ ~skips(frame)
        skipped == copy = LaterCopy /\ isGroup(frame)
        message == NewMessage("incoming", a, frame.remoteJid, frame.content = "imageMessage")
        r == enqueue(chan, isConnected, QueueName("incoming"), message)
    IN  /\ Alive
        /\ created["incoming"] + created["outgoing"] < MaxMessages
        /\ IF passes /\ ~skipped
           THEN Enqueue(message, idOf("incoming", frame.remoteJid, now), r)
           ELSE NoEnqueue
        /\ upsert' = [copy |-> copy, frame |-> frame, onMessage |-> passes,
                      outcome |-> IF ~passes THEN "filtered"
                                  ELSE IF skipped THEN "group_skipped"
                                  ELSE IF r.threw THEN "enqueue_failed" ELSE "enqueued",
                      threw |-> FALSE]
        /\ NoCalls
        /\ UNCHANGED <<isConnected, processing, loop, limits, now, shutdown, everDead, fails,
                       delivered, denied, lost, popCount, firstSent, granted, inFlightAtStop>>
        /\ UNCHANGED <<sessionVars, crmVars, http, outcomes>>

NextWebhook ==
    \/ \E copy \in EntryPoints, a \in Accounts, chat_id \in WebhookChatIds, valid \in BOOLEAN,
          conversation_id \in {None, "t1"} : Webhook(copy, a, chat_id, valid, conversation_id)
    \/ \E a \in Accounts : addAccount(a)
    \/ \E c \in ClientIds : ConnectMakesSocket(c)
    \/ \E c \in ClientIds : ConnectionOpen(c)
    \/ Tick
    \/ RedisError

SpecWebhook == InitFresh /\ [][NextWebhook]_vars

NextUpsert ==
    \/ \E copy \in EntryPoints, a \in Accounts, frame \in Frames, fresh \in BOOLEAN :
          MessagesUpsert(copy, a, frame, fresh)
    \/ RedisError

SpecUpsert == InitFresh /\ [][NextUpsert]_vars

(***************************************************************************)
(* Properties of the entry point                                           *)
(***************************************************************************)
\* C23: a webhook call whose payload handleOutgoingMessage rejected, or
\* whose enqueue failed, is not answered with a success status.
C23_FailureReported ==
    http.outcome \in {"rejected", "enqueue_failed"} => http.status # 200

\* C24: the address of an enqueued outgoing message is the digits of the
\* chat id (its "WhatsApp " prefix removed) followed by "@s.whatsapp.net",
\* and a chat id without a digit is never enqueued.
C24_DigitsOnly ==
    http.outcome = "enqueued" =>
        /\ digitsOnly(http.chat_id) # <<>>
        /\ http.to = digitsOnly(stripPrefix(http.chat_id)) \o Suffix
        /\ Head(chan[QueueName("outgoing")])[4] = http.to

Queued(type) == {chan[QueueName(type)][i] : i \in 1..Len(chan[QueueName(type)])}

C26_NoGroupMessages ==
    /\ isGroup(upsert.frame) => upsert.outcome # "enqueued"
    /\ \A e \in Queued("incoming") : parse(e).to # "group@g.us"

\* C29: when the enqueue inside handleIncomingMessage fails, the failure
\* reaches the caller of handleIncomingMessage.
C29_EnqueueFailurePropagates ==
    upsert.outcome = "enqueue_failed" => upsert.threw

\* C30: no two messages that were enqueued carry the same id.
C30_UniqueIds ==
    \A i, j \in 1..Len(ids) : i # j => ids[i] # ids[j]

(***************************************************************************)
(* The incoming handler with the ways it can end told apart: without       *)
(* tokens for the account it logs and returns; an error thrown by          *)
(* amocrmAPI.sendMessage, whatever its code, is logged and rethrown to     *)
(* processQueue, whose catch calls queue.retry(message).                   *)
(***************************************************************************)
\* what sendMessage throws: MISSING_CHANNEL_CREDENTIALS (wrapped by the outer
\* catch of sendScopedMessage), SEND_MESSAGE_ERROR when no scope is bound and
\* the three methods failed, a 4xx answer of the CRM, a network error
ConfigurationErrors == {"MISSING_CHANNEL_CREDENTIALS", "NO_SCOPE"}
Rejection == "rejected"
Thrown == ConfigurationErrors \cup {Rejection, "network"}
NoTokens == "no tokens"

Noted(u, outcome) == outcomes' = [outcomes EXCEPT ![u] = @ \cup {outcome}]

\* if (!tokens) { logger.warn(...); return; }
IncomingNoTokens(w) ==
    /\ Alive
    /\ loop[w].pc = "in_send"
    /\ Processed(w)
    /\ Noted(loop[w].msg.uid, NoTokens)
    /\ NoCalls
    /\ UNCHANGED <<chan, isConnected, processing, limits, now, shutdown, created, origin, arrival,
                   everDead, fails, delivered, denied, lost, popCount, firstSent, granted>>
    /\ UNCHANGED <<sessionVars, crmVars, http, ids, upsert>>

\* catch (err) { logger.error(...); throw err; } and processQueue's catch
IncomingThrows(w, cause) ==
    /\ Alive
    /\ loop[w].pc = "in_send"
    /\ ProcessorCatch(w, loop[w].msg)
    /\ Noted(loop[w].msg.uid, cause)
    /\ lastCheck' = NoCheck
    /\ UNCHANGED <<isConnected, processing, limits, now, shutdown, created, origin, delivered,
                   denied, popCount, firstSent, granted>>
    /\ UNCHANGED <<sessionVars, crmVars, http, ids, upsert>>

NextErrors ==
    \/ \E a \in Accounts, c \in Counterparts : handleIncomingMessage(a, c)
    \/ \E w \in Workers : BrPop(w)
    \/ \E w \in Workers : IncomingDelay(w)
    \/ \E w \in Workers : IncomingSendOk(w)
    \/ \E w \in Workers : IncomingNoTokens(w)
    \/ \E w \in Workers, cause \in Thrown : IncomingThrows(w, cause)

SpecErrors == InitFresh /\ [][NextErrors]_vars

InChannel(u) == Copies(QueueOfUid(u), u) > 0
InDeadLetter(u) == Copies(DeadOfUid(u), u) > 0
Ended(u, causes) == outcomes[u] \cap causes # {}

\* C27: a message whose handler failed for missing scope or credentials is
\* dropped: it is not re-enqueued and not dead-lettered, and its handler is
\* not run again.
C27_ConfigurationDropped ==
    \A u \in Made :
        Ended(u, ConfigurationErrors) =>
            /\ ~InChannel(u)
            /\ ~InDeadLetter(u)
            /\ u \notin everDead
            /\ fails[u] = 1

\* C28: a message the CRM rejected is in the dead-letter list from that
\* first rejection on and is not put back into its channel.
C28_RejectedDeadLettered ==
    \A u \in Made :
        Ended(u, {Rejection}) =>
            /\ u \in everDead
            /\ ~InChannel(u)
            /\ fails[u] = 1

(***************************************************************************)
(* Claims about the worker loops, the broker and the handlers              *)
(***************************************************************************)
Running(type) == {w \in Workers : loop[w].queue = type /\ loop[w].pc \notin {"none", "exit"}}
InHandler(type) == {w \in Running(type) : loop[w].pc \in HandlerPcs}

\* C31: at any time at most one processQueue loop runs per channel and at
\* most one handler invocation per channel is in flight, for every sequence
\* of start() and stop() calls.
C31_OneLoopPerChannel ==
    \A type \in Types :
        /\ Cardinality(Running(type)) <= 1
        /\ Cardinality(InHandler(type)) <= 1

(***************************************************************************)
(* The worker loops beside the Redis client's 'error' event.  The loops    *)
(* run whenever they can (the event loop serves every pending await);      *)
(* nothing is assumed about how often messages arrive or the client        *)
(* reports an error.  isConnected is set to true only in connect(), which  *)
(* the entry point calls once, before start().                             *)
(***************************************************************************)
LoopStep(w) ==
    \/ BrPop(w)
    \/ SleepDone(w)
    \/ OutgoingLimit(w)
    \/ OutgoingTyping(w)
    \/ OutgoingIssueSend(w)
    \/ OutgoingSendOk(w)
    \/ IncomingDelay(w)
    \/ IncomingSendOk(w)

NextBroker ==
    \/ \E a \in Accounts, c \in Counterparts : handleOutgoingMessage(a, c)
    \/ \E a \in Accounts, c \in Counterparts : handleIncomingMessage(a, c)
    \/ \E w \in Workers : LoopStep(w)
    \/ Tick
    \/ RedisError

SpecBroker == InitFresh /\ [][NextBroker]_vars /\ \A w \in Workers : WF_vars(LoopStep(w))

Waiting(u) == u \in Made /\ Copies(QueueOfUid(u), u) > 0

\* C32: a broker error neither ends a worker loop nor changes a retryCount,
\* and dequeues succeed again afterwards, so that every queued message is
\* eventually taken from its channel by a worker.
C32_EventuallyProcessed ==
    \A u \in 1..MaxMessages : Waiting(u) ~> ~Waiting(u)

(***************************************************************************)
(* Claims about the sessions                                               *)
(***************************************************************************)
\* C33: a transition of a client's connection into open sets
\* reconnectAttempts to zero, so reconnectAttempts is the number of
\* reconnects scheduled since the last open (or since the client was made).
C33_OpenResetsAttempts ==
    \A c \in ClientIds :
        /\ wa[c].link = "open" => wa[c].reconnectAttempts = 0
        /\ wa[c].reconnectAttempts = wa[c].sinceOpen

C33_Witness ==
    \E c \in ClientIds :
        /\ wa[c].link = "open"
        /\ wa[c].lastClose.after > 1
        /\ wa[c].reconnectAttempts = 0

(***************************************************************************)
(* Claims about the thread id of a response                                *)
(***************************************************************************)
\* the fields of a response body in the order of their priority; a field
\* that is absent, null or empty counts as not present
Fields(data) == <<data.new_message, data.conversation_id, data.id>>
Present(data) == IF data.object THEN {i \in 1..3 : Fields(data)[i] # None} ELSE {}
FirstPresent(data) == Fields(data)[CHOOSE i \in Present(data) : \A j \in Present(data) : i <= j]

\* C34: after a successful send whose response is data, the id stored for
\* (account, counterpart) is the first present one of
\* new_message.conversation_id, conversation_id and id; a response with
\* none of them, or one that is not an object, leaves the table as it was.
C34_StoredByPriority ==
    [][\A data \in ResponseData :
          VariantRequest("200", data) =>
              IF Present(data) = {}
              THEN conversations' = conversations
              ELSE getConversationId(conversations', crm.accountId, crm.phoneNumber)
                       = FirstPresent(data)]_vars

\* the second send for a pair succeeded with a response that carries no id,
\* and the pair still has the id of the first
C34_Witness ==
    /\ ScopedSuccess
    /\ crm.call = 2
    /\ crm.returned = None
    /\ learned[CallKey] = "t2"
    /\ getConversationId(conversations, crm.accountId, crm.phoneNumber) = "t2"

(***************************************************************************)
(* The typing simulation.  sendTyping awaits the 'composing' update inside *)
(* try/catch and sets a timer whose async callback awaits the 'paused'     *)
(* update with no catch.  The timer fires when simulateTyping's own wait   *)
(* ends, so the update is settled while the handler is in randomDelay or   *)
(* in the send.  A rejection there is an unhandled promise rejection:      *)
(* the entry point installs no handler for it, and the runtime either      *)
(* ends the process (the default of the Node.js releases the README asks   *)
(* for) or only prints a warning.                                          *)
(***************************************************************************)
PausedOutcomes == {"resolved", "warned", "exit"}

PausedUpdate(w, outcome) ==
    /\ Alive
    /\ loop[w].queue = "outgoing"
    /\ loop[w].pc \in {"delay", "send"}
    /\ shutdown' = IF outcome = "exit" THEN "crashed" ELSE shutdown
    /\ NoCalls
    /\ UNCHANGED <<chan, isConnected, processing, loop, limits, now, created, origin, arrival,
                   everDead, fails, delivered, denied, lost, popCount, firstSent, granted,
                   inFlightAtStop>>
    /\ UNCHANGED <<sessionVars, crmVars, edgeVars>>

NextTyping ==
    \/ \E a \in Accounts, c \in Counterparts : handleOutgoingMessage(a, c)
    \/ \E w \in Workers : BrPop(w)
    \/ \E w \in Workers : OutgoingLimit(w)
    \/ \E w \in Workers : OutgoingTyping(w)
    \/ \E w \in Workers : OutgoingIssueSend(w)
    \/ \E w \in Workers : OutgoingSendOk(w)
    \/ \E w \in Workers : OutgoingSendError(w)
    \/ \E w \in Workers, outcome \in PausedOutcomes : PausedUpdate(w, outcome)
    \/ Tick

SpecTyping == InitFresh /\ [][NextTyping]_vars

\* C35: whatever the presence updates of the typing simulation do, the
\* delayed 'paused' update included, a handler that has begun goes on to
\* the random delay and the send: it is never cut off by such a failure.
C35_TypingNeverFailsMessage ==
    \A w \in Workers : loop[w].pc \in HandlerPcs => shutdown # "crashed"

(***************************************************************************)
(* Claims about what a handler's end means for its message                 *)
(***************************************************************************)
\* C36: when a handler threw and the processor's catch has run, retry()
\* included, the message is in exactly one of its channel and its
\* dead-letter channel, also when the enqueue made by retry() fails.
C36_NoLossOnHandlerFailure ==
    (lastRetry.arg # NoMsg /\ fails[lastRetry.arg.uid] > 0) =>
        LET u == lastRetry.arg.uid
        IN  Copies(QueueOfUid(u), u) + Copies(DeadOfUid(u), u) = 1

\* C37: the outgoing handler ends successfully for a message only if the
\* message was handed to the socket; a media message whose download fails
\* or whose account has no client or socket is not reported as processed.
C37_SuccessMeansSent ==
    \A u \in Made : (origin[u].type = "outgoing" /\ delivered[u] > 0) => WasSent(u)

(***************************************************************************)
(* WhatsAppManager.sendMessage beside the life of the session.             *)
(* client.isConnected() is `this.sock !== null`: sock is assigned by       *)
(* connect() when the socket is made and set to null only by disconnect(). *)
(***************************************************************************)
isConnectedClient(o) == o.sock # "null"

\* manager.sendMessage(accountId, to, message) for an account the map holds:
\* 'is not connected' when client.isConnected() is false, otherwise
\* client.sendMessage, which calls sock.sendMessage
managerSendMessage(a) ==
    LET c == clients[a]
    IN  /\ c # NoClient
        /\ wa' = [wa EXCEPT ![c].lastSend =
                     [result |-> IF isConnectedClient(wa[c]) THEN "sent" ELSE "not connected",
                      connected |-> getAccountStatus(a).connected]]
        /\ UNCHANGED <<queueVars, clients, accountStatuses, crmVars, edgeVars>>

NextSend ==
    \/ \E a \in Accounts : addAccount(a)
    \/ \E c \in ClientIds : ConnectMakesSocket(c)
    \/ \E c \in ClientIds : ConnectThrows(c)
    \/ \E c \in ClientIds : ConnectionOpen(c)
    \/ \E c \in ClientIds, reason \in Reasons : ConnectionClose(c, reason)
    \/ \E c \in ClientIds : ReconnectTimer(c)
    \/ \E a \in Accounts : managerSendMessage(a)

SpecSend == InitFresh /\ [][NextSend]_vars

\* C38: manager.sendMessage hands a message to the socket only while the
\* account's status says connected; while it says connected = false the
\* call fails with 'is not connected' and nothing is sent.
C38_SendOnlyWhenOpen ==
    \A c \in ClientIds : wa[c].lastSend.result = "sent" => wa[c].lastSend.connected

(***************************************************************************)
(* Claims about the reconnect timers and the manager's tables              *)
(***************************************************************************)
TimersOf(a) == {c \in ClientIds : wa[c].born /\ wa[c].accountId = a /\ wa[c].timer}

\* C39: per account at most one reconnect timer is pending, a pending timer
\* is the one reconnectTimeout holds, and once disconnect() has returned no
\* reconnect of the client is pending.
C39_OneReconnectTimer ==
    /\ \A a \in Accounts : Cardinality(TimersOf(a)) <= 1
    /\ \A c \in ClientIds :
           /\ wa[c].timer => wa[c].reconnectTimeout = "set"
           /\ (wa[c].removed /\ wa[c].disconnectPc = "idle") => ~wa[c].timer
\* no addAccount and no removeAccount call for the account is under way
NoCallRunning(a) ==
    \A c \in ClientIds :
        (wa[c].born /\ wa[c].accountId = a) =>
            /\ ~(wa[c].connectPc = "auth" /\ wa[c].via = "add")
            /\ wa[c].disconnectPc = "idle"

\* C40: outside a running addAccount / removeAccount call an account has a
\* status entry exactly when it has a client entry; an event or a failed
\* connect() that arrives after removeAccount re-creates no entry.
C40_TablesConsistent ==
    \A a \in Accounts :
        NoCallRunning(a) => (getAccountStatus(a) # NoStatus <=> clients[a] # NoClient)

====
